---- MODULE Spec2Model ----
(***************************************************************************)
(* k8s-letsencrypt-force-renew: the run of main.go as a state machine.     *)
(*                                                                         *)
(* The cluster (Certificates, Secrets, CertificateRequests) is the store   *)
(* cl* ; run() reads it in two bulk lists, classifies every Certificate    *)
(* into the map serialsToCertificates, and, with --renew, drives           *)
(* renewCertificate for every entry of the map.  Every call of the API     *)
(* client is one action and may fail; cert-manager (the controller that    *)
(* creates and completes CertificateRequests) and other writers of Secrets *)
(* act between the calls.                                                  *)
(***************************************************************************)
EXTENDS Integers, Sequences, FiniteSets, TLC

----------------------------------------------------------------------------
(* Bounds of the exploration *)

\* longest list of Certificate resources the cluster returns
MaxCerts == 2
\* number of CertificateRequest names the cluster may hold
NumRequests == 2
\* number of writes to Secrets by other clients during one run
MaxWrites == 1

----------------------------------------------------------------------------
(* Program constants *)

\* core.TLSCertKey
TLSCertKey == "tls.crt"
\* capi.IssuerNameAnnotationKey and the literal of the filter loop
IssuerNameAnnotationKey == "cert-manager.io/issuer-name"
\* the value renewCertificate writes
ForceRenewalTriggered == "force-renewal-triggered"
\* wait.Poll(time.Second, time.Minute, ...): interval and timeout in seconds
PollInterval == 1
PollTimeout == 60

----------------------------------------------------------------------------
(* Values *)

EmptyMap == [k \in {} |-> ""]

\* A nil []byte, as a map lookup of an absent key or a null entry yields it;
\* "" is the empty but non-nil []byte.
NilBytes == "<nil>"

PemA == "-----BEGIN CERTIFICATE----- A"
PemB == "-----BEGIN CERTIFICATE----- B"

\* The serial number inside each well-formed PEM payload.
PemSerials == (PemA :> 7) @@ (PemB :> 12)

\* pki.DecodeX509CertificateBytes: an error for anything that is not a PEM
\* block holding a certificate, the empty payload included.
DecodeX509CertificateBytes(certPEM) ==
    IF certPEM \in DOMAIN PemSerials
    THEN [err |-> FALSE, SerialNumber |-> PemSerials[certPEM]]
    ELSE [err |-> TRUE, SerialNumber |-> 0]

\* cert.SerialNumber.String(): the decimal text of the serial number
SerialString(n) == ToString(n)

\* m[k] of a Go map: the zero value (nil) when m is nil or has no key k
Lookup(m, k) == IF k \in DOMAIN m THEN m[k] ELSE NilBytes

\* The Certificate resources of the cluster.
crtWeb == [Namespace |-> "a", Name |-> "web", SecretName |-> "tls", UID |-> 1]
crtApi == [Namespace |-> "a", Name |-> "api", SecretName |-> "tls", UID |-> 2]
crtB   == [Namespace |-> "b", Name |-> "web", SecretName |-> "tls", UID |-> 3]

Certificates == {crtWeb, crtApi, crtB}

Namespaces == {c.Namespace : c \in Certificates}

\* (namespace, name) of the Secrets the cluster may hold
SecretKeys == {<<"a", "tls">>, <<"b", "tls">>}

ProdIssuer == "letsencrypt-prod"
OtherIssuer == "LetsEncrypt-Prod"
IssuerKindKey == "cert-manager.io/issuer-kind"

\* --issuerName values
FilterNames == {"", ProdIssuer}

DataMaps ==
    { EmptyMap, TLSCertKey :> NilBytes, TLSCertKey :> "", TLSCertKey :> "junk",
      TLSCertKey :> PemA, TLSCertKey :> PemB }

AnnotationMaps ==
    { EmptyMap,
      IssuerKindKey :> "Issuer",
      (IssuerNameAnnotationKey :> ProdIssuer) @@ (IssuerKindKey :> "Issuer"),
      (IssuerNameAnnotationKey :> OtherIssuer) @@ (IssuerKindKey :> "Issuer") }

MkSecret(key, data, ann) ==
    [Namespace |-> key[1], Name |-> key[2], Data |-> data,
     Annotations |-> ann, ResourceVersion |-> 1]

\* Every content of the Secrets of the cluster over the given payloads
SecretStores(datas, anns) ==
    UNION { { { MkSecret(k, f[k][1], f[k][2]) : k \in present }
              : f \in [present -> datas \X anns] }
            : present \in SUBSET SecretKeys }

RECURSIVE SeqsOver(_, _)
\* the sequences without repetition over S, of length at most n
SeqsOver(S, n) ==
    IF n = 0 THEN { <<>> }
    ELSE LET shorter == SeqsOver(S, n - 1)
         IN  shorter \cup
             { Append(s, x) : s \in { t \in shorter : Len(t) = n - 1 },
                              x \in S }

NoRepeat(s) == \A i, j \in DOMAIN s : i /= j => s[i] /= s[j]

CertLists == { s \in SeqsOver(Certificates, MaxCerts) : NoRepeat(s) }

RECURSIVE SetToSeq(_)
\* the items of a list call, in the order the API server returns them
SetToSeq(S) ==
    IF S = {} THEN <<>>
    ELSE LET x == CHOOSE y \in S : TRUE IN <<x>> \o SetToSeq(S \ {x})

----------------------------------------------------------------------------
VARIABLES
    issuerName,             \* flag --issuerName
    renew,                  \* flag --renew
    clCerts,                \* cluster: the Certificate resources, in list order
    clSecrets,              \* cluster: the Secret resources
    clRequests,             \* cluster: the CertificateRequest resources
    pc,                     \* position of run()
    certs,                  \* certs.Items
    secretsMap,             \* makeSecretsMap(secrets.Items)
    idx,                    \* index of the analysis loop in certs.Items
    skipped,                \* counter skipped
    serialsToCertificates,  \* the map of affected certificates
    outcome,                \* per analysed certificate: what the loop did with it
    pending,                \* keys of serialsToCertificates not yet ranged over
    cert,                   \* renewCertificate: its argument
    requests,               \* renewCertificate: requests.Items of the first list
    pos,                    \* renewCertificate: index of the loop in requests
    secret,                 \* renewCertificate: the Secret as fetched by Get
    elapsed,                \* wait.Poll: seconds since the poll began
    err,                    \* what run() returned ("running" until it returns)
    deleted,                \* history: requests deleted, with the certificate renewed
    updated,                \* history: Secret updates applied, in order
    attempts,               \* history: every renewCertificate call that returned
    late,                   \* history: API calls issued after a renewal had failed
    writes                  \* history: writes by other clients

vars == <<issuerName, renew, clCerts, clSecrets, clRequests, pc, certs,
          secretsMap, idx, skipped, serialsToCertificates, outcome, pending,
          cert, requests, pos, secret, elapsed, err, deleted, updated,
          attempts, late, writes>>

flagVars == <<issuerName, renew>>
analysisVars == <<certs, secretsMap, idx, skipped, serialsToCertificates, outcome>>
renewVars == <<pending, cert, requests, pos, secret, elapsed>>
historyVars == <<deleted, updated>>

NoCert == [Namespace |-> "", Name |-> "", SecretName |-> "", UID |-> 0]
NoSecret == [Namespace |-> "", Name |-> "", Data |-> EmptyMap,
             Annotations |-> EmptyMap, ResourceVersion |-> 0]

----------------------------------------------------------------------------
(* run(): the bulk reads *)

\* the state every run starts in, whatever the cluster holds
Start ==
    /\ pc = "listCerts"
    /\ certs = <<>>
    /\ secretsMap = EmptyMap
    /\ idx = 1
    /\ skipped = 0
    /\ serialsToCertificates = EmptyMap
    /\ outcome = <<>>
    /\ pending = {}
    /\ cert = NoCert
    /\ requests = <<>>
    /\ pos = 0
    /\ secret = NoSecret
    /\ elapsed = 0
    /\ err = "running"
    /\ deleted = {}
    /\ updated = <<>>
    /\ attempts = <<>>
    /\ late = 0
    /\ writes = 0

\* a renewCertificate call has returned an error
RenewalFailed == \E k \in DOMAIN attempts : attempts[k].ret /= "nil"

\* every call of the API client passes here
ApiCall == late' = IF RenewalFailed THEN late + 1 ELSE late

\* return of run(): the process ends with this result
Return(e) ==
    /\ pc' = "exit"
    /\ err' = e

ErrListCertificates == "error listing Certificate resources"
ErrListSecrets == "error listing Secret resources"

\* (variant: the failed read is noted and the run goes on with what it has)
FetchError_Ignored(e) ==
    /\ err' = e
    /\ pc' = IF pc = "listCerts" THEN "listSecrets" ELSE "analyze"

\* lines 74-76 and 80-82: a failed bulk read ends the run
FetchError(e) == Return(e)

\* cl.List(ctx, &certs)
ListCertificates ==
    /\ pc = "listCerts"
    /\ ApiCall
    /\ \/ /\ FetchError(ErrListCertificates)
          /\ UNCHANGED certs
       \/ /\ certs' = clCerts
          /\ pc' = "listSecrets"
          /\ UNCHANGED err
    /\ UNCHANGED <<flagVars, clCerts, clSecrets, clRequests, secretsMap, idx,
                   skipped, serialsToCertificates, outcome, renewVars,
                   historyVars, attempts, writes>>

\* (variant: the map is keyed by the Secret's name alone)
SecretKey_NameOnly(namespace, name) == name

\* s.Namespace+"/"+s.Name, lines 91 and 231
SecretKey(namespace, name) == namespace \o "/" \o name

RECURSIVE makeSecretsMap(_)
makeSecretsMap(secrets) ==
    IF secrets = <<>> THEN EmptyMap
    ELSE LET n == Len(secrets)
             s == secrets[n]
             m == makeSecretsMap(SubSeq(secrets, 1, n - 1))
             key == SecretKey(s.Namespace, s.Name)
         IN  [k \in DOMAIN m \cup {key} |-> IF k = key THEN s ELSE m[k]]

\* cl.List(ctx, &secrets), then makeSecretsMap
ListSecrets ==
    /\ pc = "listSecrets"
    /\ ApiCall
    /\ \/ /\ FetchError(ErrListSecrets)
          /\ UNCHANGED secretsMap
       \/ /\ secretsMap' = makeSecretsMap(SetToSeq(clSecrets))
          /\ pc' = "analyze"
          /\ UNCHANGED err
    /\ UNCHANGED <<flagVars, clCerts, clSecrets, clRequests, certs, idx,
                   skipped, serialsToCertificates, outcome, renewVars,
                   historyVars, attempts, writes>>

----------------------------------------------------------------------------
(* run(): the analysis loop *)

\* (variant: the filter runs even when --issuerName is not set)
FilterMismatches_AlsoWhenUnset(annotations) ==
    { key \in DOMAIN annotations :
        key = IssuerNameAnnotationKey /\ annotations[key] /= issuerName }

\* (variant: once the issuer name differs, every annotation of the loop counts)
FilterMismatches_EveryAnnotation(annotations) ==
    IF /\ issuerName /= ""
       /\ IssuerNameAnnotationKey \in DOMAIN annotations
       /\ annotations[IssuerNameAnnotationKey] /= issuerName
    THEN DOMAIN annotations
    ELSE {}

\* the filter loop: the annotations that set skip (and count as skipped)
FilterMismatches(annotations) ==
    IF issuerName /= ""
    THEN { key \in DOMAIN annotations :
             key = IssuerNameAnnotationKey /\ annotations[key] /= issuerName }
    ELSE {}

\* (variant: only the nil map is checked, not the entry)
NoData_NilMapOnly(s) == s.Data = EmptyMap

\* line 97: secret.Data == nil || secret.Data[core.TLSCertKey] == nil
NoData(s) == s.Data = EmptyMap \/ Lookup(s.Data, TLSCertKey) = NilBytes

\* One iteration of the loop over certs.Items: what happens to crt.
\*   class    which branch the iteration ends in
\*   decoded  whether the payload was handed to the decoder
\*   skips    by how much skipped grows
\*   serial   the serial number decoded, as the map's key
Classify(crt) ==
    LET key == SecretKey(crt.Namespace, crt.SecretName)
        none == [class |-> "notfound", decoded |-> FALSE, skips |-> 1, serial |-> ""]
    IN
    IF key \notin DOMAIN secretsMap THEN none
    ELSE
      LET s == secretsMap[key]
          certPEM == Lookup(s.Data, TLSCertKey)
      IN
      IF NoData(s)
      THEN [none EXCEPT !.class = "nodata"]
      ELSE
        LET x509 == DecodeX509CertificateBytes(certPEM)
            mismatches == FilterMismatches(s.Annotations)
        IN
        IF x509.err
        THEN [none EXCEPT !.class = "decodeerr", !.decoded = TRUE]
        ELSE IF mismatches /= {}
        THEN [class |-> "filtered", decoded |-> TRUE,
              skips |-> Cardinality(mismatches),
              serial |-> SerialString(x509.SerialNumber)]
        ELSE [class |-> "affected", decoded |-> TRUE, skips |-> 0,
              serial |-> SerialString(x509.SerialNumber)]

\* (variant: an entry that is there already is kept)
MapPut_KeepsFirst(m, key, value) ==
    [k \in DOMAIN m \cup {key} |-> IF k \in DOMAIN m THEN m[k] ELSE value]

\* m[key] = value of a Go map
MapPut(m, key, value) ==
    [k \in DOMAIN m \cup {key} |-> IF k = key THEN value ELSE m[k]]

\* one iteration of: for _, crt := range certs.Items
AnalyzeCertificate ==
    /\ pc = "analyze"
    /\ idx <= Len(certs)
    /\ LET crt == certs[idx]
           r == Classify(crt)
       IN  /\ skipped' = skipped + r.skips
           /\ serialsToCertificates' =
                IF r.class = "affected"
                THEN MapPut(serialsToCertificates, r.serial, crt)
                ELSE serialsToCertificates
           /\ outcome' = Append(outcome, r)
    /\ idx' = idx + 1
    /\ UNCHANGED <<flagVars, clCerts, clSecrets, clRequests, pc, certs,
                   secretsMap, renewVars, err, historyVars, attempts, late, writes>>

\* (variant: the early return at !renew is missing)
NothingToDo_IgnoresRenew == Cardinality(DOMAIN serialsToCertificates) = 0

\* lines 131-138: nothing to renew, or no --renew
NothingToDo == Cardinality(DOMAIN serialsToCertificates) = 0 \/ ~renew

\* after the loop: the report and the two early returns
Report ==
    /\ pc = "analyze"
    /\ idx > Len(certs)
    /\ IF NothingToDo
       THEN /\ Return("nil")
            /\ UNCHANGED pending
       ELSE /\ pc' = "renewLoop"
            /\ pending' = DOMAIN serialsToCertificates
            /\ UNCHANGED err
    /\ UNCHANGED <<flagVars, clCerts, clSecrets, clRequests, analysisVars,
                   cert, requests, pos, secret, elapsed, historyVars, attempts,
                   late, writes>>

----------------------------------------------------------------------------
(* run(): the loop over serialsToCertificates, and renewCertificate *)

\* metav1.IsControlledBy(&req, &cert): the controller owner reference names cert
IsControlledBy(req, crt) == req.Owner = crt.UID

\* len(req.Status.Certificate) == 0
InProgress(req) == req.Certificate = ""

\* (variant: a failed renewal is logged and the loop goes on)
RenewReturn_BestEffort(e, at) ==
    /\ attempts' = Append(attempts, [cert |-> cert, ret |-> e, at |-> at])
    /\ pc' = "renewLoop"
    /\ UNCHANGED err

\* return of renewCertificate(cert) to the loop of run(): lines 152-155
RenewReturn(e, at) ==
    /\ attempts' = Append(attempts, [cert |-> cert, ret |-> e, at |-> at])
    /\ IF e /= "nil"
       THEN Return(e)
       ELSE /\ pc' = "renewLoop"
            /\ UNCHANGED err

\* for _, cert := range serialsToCertificates: the next entry, in map order
RenewNext ==
    /\ pc = "renewLoop"
    /\ IF pending = {}
       THEN /\ Return("nil")
            /\ UNCHANGED <<renewVars>>
       ELSE \E sn \in pending :
              /\ cert' = serialsToCertificates[sn]
              /\ pending' = pending \ {sn}
              /\ pc' = "cancelList"
              \* the locals of the new call
              /\ requests' = <<>>
              /\ pos' = 0
              /\ secret' = NoSecret
              /\ elapsed' = 0
              /\ UNCHANGED err
    /\ UNCHANGED <<flagVars, clCerts, clSecrets, clRequests, analysisVars,
                   historyVars, attempts, late, writes>>

\* the CertificateRequests of a namespace, in any order a list may return them
Listings(namespace) ==
    LET S == { r \in clRequests : r.Namespace = namespace }
    IN  { s \in SeqsOver(S, Cardinality(S)) : Len(s) = Cardinality(S) /\ NoRepeat(s) }

\* (variant: the loop takes every request of the listing, whoever owns it)
NextOwned_Any(items, from) ==
    IF from <= Len(items) THEN from ELSE 0

\* index of the first request at or after from that cert controls; 0 if none
NextOwned(items, from) ==
    LET owned == { k \in from..Len(items) : IsControlledBy(items[k], cert) }
    IN  IF owned = {} THEN 0
        ELSE CHOOSE k \in owned : \A l \in owned : k <= l

\* (variant: a request in progress is reported as an error)
CancelStale_InProgressFails(items, from) ==
    LET k == NextOwned(items, from) IN
    IF k = 0
    THEN /\ pc' = "getSecret"
         /\ pos' = Len(items) + 1
         /\ UNCHANGED <<err, attempts>>
    ELSE IF InProgress(items[k])
    THEN /\ pos' = k
         /\ RenewReturn("issuance in progress", "InProgress")
    ELSE /\ pc' = "delete"
         /\ pos' = k
         /\ UNCHANGED <<err, attempts>>

\* the loop over requests.Items from index from, up to its next API call
CancelStale(items, from) ==
    LET k == NextOwned(items, from) IN
    IF k = 0
    THEN /\ pc' = "getSecret"
         /\ pos' = Len(items) + 1
         /\ UNCHANGED <<err, attempts>>
    ELSE IF InProgress(items[k])
    THEN /\ pos' = k
         /\ RenewReturn("nil", "InProgress")
    ELSE /\ pc' = "delete"
         /\ pos' = k
         /\ UNCHANGED <<err, attempts>>

\* cl.List(ctx, &requests, client.InNamespace(cert.Namespace)), line 162
CancelList ==
    /\ pc = "cancelList"
    /\ ApiCall
    /\ \/ /\ RenewReturn("list CertificateRequests failed", "CancelStale")
          /\ UNCHANGED <<requests, pos>>
       \/ \E items \in Listings(cert.Namespace) :
              /\ requests' = items
              /\ CancelStale(items, 1)
    /\ UNCHANGED <<flagVars, clCerts, clSecrets, clRequests, analysisVars,
                   pending, cert, secret, elapsed, historyVars, writes>>

\* (variant: a failed Delete is logged and the loop goes on to the next request)
DeleteRequest_FailureIgnored ==
    /\ pc = "delete"
    /\ ApiCall
    /\ LET req == requests[pos] IN
       \/ /\ CancelStale(requests, pos + 1)
          /\ UNCHANGED <<clRequests, deleted>>
       \/ /\ \E r \in clRequests : r.Namespace = req.Namespace /\ r.Name = req.Name
          /\ clRequests' = { r \in clRequests :
                               ~(r.Namespace = req.Namespace /\ r.Name = req.Name) }
          /\ deleted' = deleted \cup {[req |-> req, by |-> cert]}
          /\ CancelStale(requests, pos + 1)
    /\ UNCHANGED <<flagVars, clCerts, clSecrets, analysisVars, pending, cert,
                   requests, secret, elapsed, updated, writes>>

\* cl.Delete(ctx, &req), line 178
DeleteRequest ==
    /\ pc = "delete"
    /\ ApiCall
    /\ LET req == requests[pos] IN
       \/ /\ RenewReturn("delete CertificateRequest failed", "CancelStale")
          /\ UNCHANGED <<clRequests, deleted, pos>>
       \/ /\ \E r \in clRequests : r.Namespace = req.Namespace /\ r.Name = req.Name
          /\ clRequests' = { r \in clRequests :
                               ~(r.Namespace = req.Namespace /\ r.Name = req.Name) }
          /\ deleted' = deleted \cup {[req |-> req, by |-> cert]}
          /\ CancelStale(requests, pos + 1)
    /\ UNCHANGED <<flagVars, clCerts, clSecrets, analysisVars, pending, cert,
                   requests, secret, elapsed, updated, writes>>

Stored(namespace, name) ==
    { s \in clSecrets : s.Namespace = namespace /\ s.Name = name }

\* (variant: a Secret that already carries the annotation of a forced renewal
\* is left alone and the call returns nil)
GetSecret_SkipsIfTriggered ==
    /\ pc = "getSecret"
    /\ ApiCall
    /\ \/ /\ RenewReturn("get Secret failed", "Annotate")
          /\ UNCHANGED secret
       \/ \E s \in Stored(cert.Namespace, cert.SecretName) :
              /\ secret' = s
              /\ IF Lookup(s.Annotations, IssuerNameAnnotationKey) = ForceRenewalTriggered
                 THEN RenewReturn("nil", "Annotate")
                 ELSE /\ pc' = "updateSecret"
                      /\ UNCHANGED <<err, attempts>>
    /\ UNCHANGED <<flagVars, clCerts, clSecrets, clRequests, analysisVars,
                   pending, cert, requests, pos, elapsed, historyVars, writes>>

\* cl.Get(ctx, ObjectKey{cert.Namespace, cert.Spec.SecretName}, &secret), line 188
GetSecret ==
    /\ pc = "getSecret"
    /\ ApiCall
    /\ \/ /\ RenewReturn("get Secret failed", "Annotate")
          /\ UNCHANGED secret
       \/ \E s \in Stored(cert.Namespace, cert.SecretName) :
              /\ secret' = s
              /\ pc' = "updateSecret"
              /\ UNCHANGED <<err, attempts>>
    /\ UNCHANGED <<flagVars, clCerts, clSecrets, clRequests, analysisVars,
                   pending, cert, requests, pos, elapsed, historyVars, writes>>

\* (variant: the annotations are replaced by a map holding the one entry)
Annotate_ReplacesAnnotations(s) ==
    [s EXCEPT !.Annotations = IssuerNameAnnotationKey :> ForceRenewalTriggered]

\* lines 196-199: the annotation set on the fetched copy
Annotate(s) ==
    [s EXCEPT !.Annotations =
        MapPut(@, IssuerNameAnnotationKey, ForceRenewalTriggered)]

\* (variant: the API server takes an update whatever version it carries)
Conflict_LastWriteWins(old, copy) == FALSE

\* the API server refuses an update that carries another resource version
\* than the stored object has
Conflict(old, copy) == old.ResourceVersion /= copy.ResourceVersion

\* cl.Update(ctx, &secret), line 200: refused when the copy is stale
UpdateSecret ==
    /\ pc = "updateSecret"
    /\ ApiCall
    /\ \/ /\ RenewReturn("update Secret failed", "Annotate")
          /\ UNCHANGED <<clSecrets, updated, elapsed, requests, pos>>
       \/ \E old \in Stored(secret.Namespace, secret.Name) :
              /\ ~Conflict(old, secret)
              /\ LET new == [Annotate(secret) EXCEPT
                               !.ResourceVersion = old.ResourceVersion + 1]
                 IN  /\ clSecrets' = (clSecrets \ {old}) \cup {new}
                     /\ updated' = Append(updated,
                                     [cert |-> cert, old |-> old, new |-> new])
              /\ pc' = "poll"
              /\ elapsed' = 0
              \* the poll's closure lists into a variable of its own
              /\ requests' = <<>>
              /\ pos' = 0
              /\ UNCHANGED <<err, attempts>>
    /\ UNCHANGED <<flagVars, clCerts, clRequests, analysisVars, pending, cert,
                   secret, deleted, writes>>

\* the condition of wait.Poll, lines 207-220: an owned request is listed
Sighted == \E r \in clRequests : r.Namespace = cert.Namespace /\ IsControlledBy(r, cert)

ErrWaitTimeout == "timed out waiting for the condition"
ErrPollList == "poll: list CertificateRequests failed"

\* (variant: the poll gives up one interval early)
PollExpired_OneTickEarly(t) == t + PollInterval >= PollTimeout

\* wait.Poll gives up once the timeout has passed, after a last check
PollExpired(t) == t >= PollTimeout

\* (variant: at the timeout the poll starts over instead of giving up)
Poll_RetriesOnTimeout ==
    /\ pc = "poll"
    /\ ApiCall
    /\ LET t == elapsed + PollInterval
           at == IF PollExpired(t) THEN "AwaitRequest, last check" ELSE "AwaitRequest"
       IN  \/ /\ RenewReturn(ErrPollList, at)
              /\ elapsed' = 0
           \/ /\ Sighted
              /\ RenewReturn("nil", at)
              /\ elapsed' = 0
           \/ /\ ~Sighted
              /\ elapsed' = IF PollExpired(t) THEN 0 ELSE t
              /\ UNCHANGED <<pc, err, attempts>>
    /\ UNCHANGED <<flagVars, clCerts, clSecrets, clRequests, analysisVars,
                   pending, cert, requests, pos, secret, historyVars, writes>>

\* wait.Poll(time.Second, time.Minute, ...): one tick of the poll, the
\* condition called; the last call comes when the timeout has passed
Poll ==
    /\ pc = "poll"
    /\ ApiCall
    /\ LET t == elapsed + PollInterval
           at == IF PollExpired(t) THEN "AwaitRequest, last check" ELSE "AwaitRequest"
       IN  \/ /\ RenewReturn(ErrPollList, at)
              /\ elapsed' = 0
           \/ /\ Sighted
              /\ RenewReturn("nil", at)
              /\ elapsed' = 0
           \/ /\ ~Sighted
              /\ IF PollExpired(t)
                 THEN /\ RenewReturn(ErrWaitTimeout, at)
                      /\ elapsed' = 0
                 ELSE /\ elapsed' = t
                      /\ UNCHANGED <<pc, err, attempts>>
    /\ UNCHANGED <<flagVars, clCerts, clSecrets, clRequests, analysisVars,
                   pending, cert, requests, pos, secret, historyVars, writes>>

----------------------------------------------------------------------------
(* The cluster's other actors, while the renewals run *)

RenewPhase == {"renewLoop", "cancelList", "delete", "getSecret", "updateSecret", "poll"}

RequestNames == 1..NumRequests

FreeNames == RequestNames \ { r.Name : r \in clRequests }

\* the name the API server generates for a new request
NewName == CHOOSE n \in FreeNames : \A m \in FreeNames : n <= m

Range(s) == { s[i] : i \in DOMAIN s }

\* cert-manager re-requests the certificate of c: its Secret carries an issuer
\* name that is not the Certificate's, and c has no request it would take up
MustReissue(c) ==
    /\ \E s \in Stored(c.Namespace, c.SecretName) :
          Lookup(s.Annotations, IssuerNameAnnotationKey) = ForceRenewalTriggered
    /\ ~\E r \in clRequests : IsControlledBy(r, c)

\* cert-manager creates a CertificateRequest for a Certificate
ControllerCreate ==
    /\ pc \in RenewPhase
    /\ FreeNames /= {}
    /\ \E c \in Range(clCerts) :
          /\ MustReissue(c)
          /\ clRequests' = clRequests \cup
                {[Namespace |-> c.Namespace, Name |-> NewName, Owner |-> c.UID,
                  Certificate |-> ""]}
    /\ UNCHANGED <<flagVars, clCerts, clSecrets, pc, analysisVars, renewVars,
                   err, historyVars, attempts, late, writes>>

\* the issuer signs: the request's status gets its certificate.  The run reads
\* the status only from the list of line 162, so a signing shows only before it.
ControllerComplete ==
    /\ pc \in {"renewLoop", "cancelList"}
    /\ \E r \in clRequests :
          /\ InProgress(r)
          /\ clRequests' = (clRequests \ {r}) \cup {[r EXCEPT !.Certificate = PemA]}
    /\ UNCHANGED <<flagVars, clCerts, clSecrets, pc, analysisVars, renewVars,
                   err, historyVars, attempts, late, writes>>

\* another client updates the Secret of the certificate being renewed: its
\* resource version moves on.  renewCertificate reads the Secret in Get and
\* writes it in Update, so a write shows before the Get (the copy of the bulk
\* read is then out of date) or between the Get and the Update.
OtherWrite ==
    /\ pc \in {"getSecret", "updateSecret"}
    /\ writes < MaxWrites
    /\ writes' = writes + 1
    /\ \E s \in Stored(cert.Namespace, cert.SecretName) :
          clSecrets' = (clSecrets \ {s}) \cup
              {[s EXCEPT !.Annotations = MapPut(@, IssuerKindKey, "ClusterIssuer"),
                         !.ResourceVersion = @ + 1]}
    /\ UNCHANGED <<flagVars, clCerts, clRequests, pc, analysisVars, renewVars,
                   err, historyVars, attempts, late>>

----------------------------------------------------------------------------
(* The run with or without --renew *)

\* what a CertificateRequest beside the Certificates cs may be: owned by one
\* of them, signed or not, or owned by none of them; the status of a request
\* that is not owned is never read (line 168 passes it over first)
RequestKinds(cs) ==
    { [Namespace |-> c.Namespace, Owner |-> c.UID, Certificate |-> st] :
        c \in cs, st \in {"", PemA} }
    \cup { [Namespace |-> ns, Owner |-> 0, Certificate |-> PemA] :
             ns \in { c.Namespace : c \in cs } }

\* the CertificateRequests a cluster holding the Certificates cs may hold;
\* which name a request bears is immaterial, so each content is taken once
RequestStores(cs) ==
    LET kinds == SetToSeq(RequestKinds(cs))
        named(n, k) == [Namespace |-> kinds[k].Namespace, Name |-> n,
                        Owner |-> kinds[k].Owner,
                        Certificate |-> kinds[k].Certificate]
    IN  UNION { { { named(n, f[n]) : n \in 1..count } :
                  f \in { g \in [1..count -> DOMAIN kinds] :
                            \A m, n \in 1..count : m <= n => g[m] <= g[n] } } :
                count \in 0..NumRequests }

RenewAnnotationMaps ==
    { (IssuerNameAnnotationKey :> ProdIssuer) @@ (IssuerKindKey :> "Issuer"),
      (IssuerNameAnnotationKey :> ForceRenewalTriggered) @@ (IssuerKindKey :> "Issuer") }

\* MaxCerts Certificates; the order of the list matters to the analysis only
RenewCertLists ==
    { SetToSeq(S) : S \in { T \in SUBSET Certificates : Cardinality(T) = MaxCerts } }

\* every Certificate of the cluster has its Secret, issued
RenewSecretStores ==
    { { MkSecret(<<"a", "tls">>, TLSCertKey :> PemA, annA),
        MkSecret(<<"b", "tls">>, TLSCertKey :> PemB, annB) } :
      annA \in RenewAnnotationMaps, annB \in RenewAnnotationMaps }

Init ==
    /\ issuerName \in FilterNames
    /\ renew \in BOOLEAN
    /\ clCerts \in RenewCertLists
    /\ clSecrets \in RenewSecretStores
    /\ clRequests \in RequestStores(Range(clCerts))
    /\ Start

Next ==
    \/ ListCertificates
    \/ ListSecrets
    \/ AnalyzeCertificate
    \/ Report
    \/ RenewNext
    \/ CancelList
    \/ DeleteRequest
    \/ GetSecret
    \/ UpdateSecret
    \/ Poll
    \/ ControllerCreate
    \/ ControllerComplete
    \/ OtherWrite

Spec == Init /\ [][Next]_vars

\* the steps of the process itself: main.go runs in one goroutine, and every
\* call of the API client returns, with a result or with an error
RunStep ==
    \/ ListCertificates
    \/ ListSecrets
    \/ AnalyzeCertificate
    \/ Report
    \/ RenewNext
    \/ CancelList
    \/ DeleteRequest
    \/ GetSecret
    \/ UpdateSecret
    \/ Poll

\* the run goes on while it can; nothing is assumed of the other actors
SpecLive == Spec /\ WF_vars(RunStep)

----------------------------------------------------------------------------
(* The dry run over every cluster content *)

InitDryRun ==
    /\ issuerName \in FilterNames
    /\ renew = FALSE
    /\ clCerts \in CertLists
    /\ clSecrets \in SecretStores(DataMaps, AnnotationMaps)
    /\ clRequests = {}
    /\ Start

NextDryRun ==
    \/ ListCertificates
    \/ ListSecrets
    \/ AnalyzeCertificate
    \/ Report

SpecDryRun == InitDryRun /\ [][NextDryRun]_vars

----------------------------------------------------------------------------
(* Properties *)

\* the Secret a Certificate names, in the snapshot of the bulk read
HasSecret(crt) == SecretKey(crt.Namespace, crt.SecretName) \in DOMAIN secretsMap
SecretOf(crt) == secretsMap[SecretKey(crt.Namespace, crt.SecretName)]
PayloadOf(crt) == Lookup(SecretOf(crt).Data, TLSCertKey)

\* crt's Secret is there and its tls.crt decodes
Decodes(crt) ==
    /\ HasSecret(crt)
    /\ ~DecodeX509CertificateBytes(PayloadOf(crt)).err

SerialOf(crt) == SerialString(DecodeX509CertificateBytes(PayloadOf(crt)).SerialNumber)

\* the issuer-name annotation of crt's Secret is exactly name
IssuedBy(crt, name) ==
    LET a == SecretOf(crt).Annotations
    IN  IssuerNameAnnotationKey \in DOMAIN a /\ a[IssuerNameAnnotationKey] = name

Analysed == DOMAIN outcome

LastAttempt == attempts[Len(attempts)]

\* C1: without --renew a run deletes no CertificateRequest and updates no
\* Secret, whatever the cluster holds: it never enters the renewal loop.
C1_DryRunMutatesNothing ==
    ~renew =>
        /\ deleted = {}
        /\ updated = <<>>
        /\ attempts = <<>>
        /\ pc \notin RenewPhase

\* a dry run that ended with two affected certificates, one of them with a
\* signed request that a renewal would have deleted
C1_Witness ==
    /\ ~renew
    /\ pc = "exit"
    /\ err = "nil"
    /\ Cardinality(DOMAIN serialsToCertificates) = 2
    /\ \E sn \in DOMAIN serialsToCertificates, r \in clRequests :
          IsControlledBy(r, serialsToCertificates[sn]) /\ ~InProgress(r)

\* C2: with a filter set, every affected certificate's Secret carries exactly
\* the filter as its issuer-name annotation, and a decoded certificate whose
\* Secret has another value or no such annotation is counted as skipped.
C2_FilterAdmitsOnlyExactIssuer ==
    issuerName /= "" =>
        /\ \A sn \in DOMAIN serialsToCertificates :
              IssuedBy(serialsToCertificates[sn], issuerName)
        /\ \A k \in Analysed :
              (Decodes(certs[k]) /\ ~IssuedBy(certs[k], issuerName)) =>
                  (outcome[k].class = "filtered" /\ outcome[k].skips = 1)

\* C3: while the listing of the current renewCertificate call holds a request
\* in progress that the certificate controls, the call has deleted no request
\* and updated no Secret.
C3_InProgressMeansNoOp ==
    (\E k \in DOMAIN requests :
        IsControlledBy(requests[k], cert) /\ InProgress(requests[k]))
    => /\ \A d \in deleted : d.by /= cert
       /\ \A k \in DOMAIN updated : updated[k].cert /= cert

\* C4: no Secret update is applied while the certificate being renewed has a
\* request in progress in the cluster.
C4_NeverAnnotateWhileInProgress ==
    [][updated' /= updated =>
         ~\E r \in clRequests : IsControlledBy(r, cert) /\ InProgress(r)]_vars

\* C5 as stated: with no filter, the number of affected certificates is the
\* number of certificates decoded.
C5_AffectedCountIsDecodedCount ==
    issuerName = "" =>
        Cardinality(DOMAIN serialsToCertificates)
            = Cardinality({ k \in Analysed : Decodes(certs[k]) })

\* C5 (amended): with no filter, the keys of serialsToCertificates are exactly
\* the serial numbers of the certificates decoded so far, each key holding a
\* certificate with that serial: the size is the number of distinct serials.
C5_AffectedKeysAreDecodedSerials ==
    issuerName = "" =>
        /\ DOMAIN serialsToCertificates
             = { SerialOf(certs[k]) : k \in { j \in Analysed : Decodes(certs[j]) } }
        /\ \A sn \in DOMAIN serialsToCertificates :
              /\ Decodes(serialsToCertificates[sn])
              /\ SerialOf(serialsToCertificates[sn]) = sn

\* no filter, two certificates decoded to one serial, one entry in the map
C5_Witness ==
    /\ issuerName = ""
    /\ pc = "exit"
    /\ Cardinality({ k \in Analysed : Decodes(certs[k]) }) = 2
    /\ Cardinality(DOMAIN serialsToCertificates) = 1

\* C6: each tick of the poll comes one interval after the last and none after
\* the timeout; the poll returns nil only on a sighting, returns the timeout
\* only at the timeout with nothing sighted, and goes on only while nothing
\* is sighted before the timeout.  A sighting at the timeout still returns nil.
C6_PollOutcome ==
    [][(pc = "poll" /\ (pc' /= "poll" \/ elapsed' /= elapsed)) =>
         LET t == elapsed + PollInterval
             ret == IF Len(attempts') > Len(attempts)
                    THEN attempts'[Len(attempts')].ret
                    ELSE "polling"
         IN  /\ t <= PollTimeout
             /\ ret \in {"nil", ErrWaitTimeout, ErrPollList, "polling"}
             /\ ret = "nil" => Sighted
             /\ ret = ErrWaitTimeout => (~Sighted /\ t = PollTimeout)
             /\ ret = "polling" =>
                   (~Sighted /\ t < PollTimeout /\ pc' = "poll" /\ elapsed' = t)
             /\ Sighted => ret \in {"nil", ErrPollList}
             /\ ret /= "polling" => pc' \in {"renewLoop", "exit"}
    ]_vars

\* the request was first listed by the check at the timeout: nil
C6_Witness ==
    /\ attempts /= <<>>
    /\ LastAttempt.at = "AwaitRequest, last check"
    /\ LastAttempt.ret = "nil"
    /\ LastAttempt.cert = cert

\* C7: a renewCertificate call that returned an error is the last one: run()
\* has returned that error, and no API call was issued after it.
C7_AbortOnFirstFailure ==
    \A k \in DOMAIN attempts :
        attempts[k].ret /= "nil" =>
            /\ k = Len(attempts)
            /\ pc = "exit"
            /\ err = attempts[k].ret
            /\ late = 0

\* a renewal failed while another affected certificate was still to come
C7_Witness ==
    /\ RenewalFailed
    /\ pc = "exit"
    /\ pending /= {}

\* C8: a renewal that found a request in progress returned nil; the run
\* ended only with every affected certificate tried, and a run in which no
\* renewal failed returned nil.
C8_InProgressSkipIsSuccess ==
    /\ \A k \in DOMAIN attempts :
          attempts[k].at = "InProgress" =>
              /\ attempts[k].ret = "nil"
              /\ (k = Len(attempts) /\ pending /= {}) => pc /= "exit"
    /\ (pc = "exit" /\ attempts /= <<>> /\ ~RenewalFailed) =>
          /\ err = "nil"
          /\ pending = {}
          /\ Len(attempts) = Cardinality(DOMAIN serialsToCertificates)

\* the first certificate was skipped for its request in progress, the second
\* was renewed, and the run returned nil
C8_Witness ==
    /\ pc = "exit"
    /\ err = "nil"
    /\ Len(attempts) = 2
    /\ attempts[1].at = "InProgress"
    /\ attempts[2].at = "AwaitRequest"
    /\ attempts[2].ret = "nil"
    /\ Len(updated) = 1

\* C9: a failed bulk read ends the run at once: nothing was classified, no
\* certificate is affected, nothing was deleted or updated, with --renew too.
C9_FetchErrorAborts ==
    err \in {ErrListCertificates, ErrListSecrets} =>
        /\ pc = "exit"
        /\ outcome = <<>>
        /\ skipped = 0
        /\ serialsToCertificates = EmptyMap
        /\ attempts = <<>>
        /\ deleted = {}
        /\ updated = <<>>

\* the Secrets could not be listed, with --renew set and Certificates found
C9_Witness ==
    /\ renew
    /\ pc = "exit"
    /\ err = ErrListSecrets
    /\ certs /= <<>>

\* C10 as stated: a Secret that is there with tls.crt absent or empty is
\* classified as no data and never decoded.
C10_AbsentOrEmptyIsNoData ==
    \A k \in Analysed :
        (HasSecret(certs[k]) /\ PayloadOf(certs[k]) \in {NilBytes, ""}) =>
            (outcome[k].class = "nodata" /\ ~outcome[k].decoded)

\* C10 (amended): a Secret that is there with no tls.crt entry (or a nil one)
\* is classified as no data, counted once and never decoded; an entry that is
\* there but empty goes to the decoder and is counted as a decode error.
C10_NilIsNoDataEmptyIsDecodeError ==
    \A k \in Analysed :
        HasSecret(certs[k]) =>
            /\ PayloadOf(certs[k]) = NilBytes =>
                  /\ outcome[k].class = "nodata"
                  /\ ~outcome[k].decoded
                  /\ outcome[k].skips = 1
            /\ PayloadOf(certs[k]) = "" =>
                  /\ outcome[k].class = "decodeerr"
                  /\ outcome[k].decoded
                  /\ outcome[k].skips = 1

\* one Secret with a nil tls.crt entry and one with an empty entry were
\* analysed: the first is no data, the second a decode error
C10_Witness ==
    /\ pc = "exit"
    /\ \E j, k \in Analysed :
          /\ HasSecret(certs[j]) /\ HasSecret(certs[k])
          /\ TLSCertKey \in DOMAIN SecretOf(certs[j]).Data
          /\ PayloadOf(certs[j]) = NilBytes
          /\ PayloadOf(certs[k]) = ""
          /\ outcome[j].class = "nodata"
          /\ outcome[k].class = "decodeerr"

\* the Secret of the certificate being renewed, as the cluster stores it
StoredSecret == CHOOSE s \in clSecrets :
                    s.Namespace = cert.Namespace /\ s.Name = cert.SecretName

\* the copy fetched at line 188 is no longer the stored version
Stale == pc = "updateSecret" /\ StoredSecret.ResourceVersion /= secret.ResourceVersion

\* C11: an Update that carries a stale copy fails: renewCertificate returns
\* the error of the update, the run ends with it (no second Get or Update),
\* and the Secrets stay as the other writer left them.
C11_StaleUpdateFails ==
    [][(Stale /\ pc' /= pc) =>
          /\ Len(attempts') = Len(attempts) + 1
          /\ attempts'[Len(attempts')].ret = "update Secret failed"
          /\ attempts'[Len(attempts')].cert = cert
          /\ pc' = "exit"
          /\ err' = "update Secret failed"
          /\ clSecrets' = clSecrets
          /\ updated' = updated
    ]_vars

\* the run ended on an update refused as stale; the stored Secret is the
\* other writer's version, without the annotation of the renewal
C11_Witness ==
    /\ pc = "exit"
    /\ attempts /= <<>>
    /\ LastAttempt.ret = "update Secret failed"
    /\ writes > 0
    /\ StoredSecret.ResourceVersion = secret.ResourceVersion + 1
    /\ Lookup(StoredSecret.Annotations, IssuerKindKey) = "ClusterIssuer"
    /\ Lookup(StoredSecret.Annotations, IssuerNameAnnotationKey) = ProdIssuer

\* the certificates of the map of affected certificates
Affected == { serialsToCertificates[sn] : sn \in DOMAIN serialsToCertificates }

UpdatesBy(c) == { k \in DOMAIN updated : updated[k].cert = c }

SkippedInProgress(c) ==
    \E k \in DOMAIN attempts : attempts[k].cert = c /\ attempts[k].at = "InProgress"

Removed == { r \in clRequests :
               ~\E q \in clRequests' : q.Namespace = r.Namespace /\ q.Name = r.Name }
Created == { q \in clRequests' :
               ~\E r \in clRequests : q.Namespace = r.Namespace /\ q.Name = r.Name }

\* C13: a step takes a request out of the cluster only as the Delete of
\* renewCertificate, and then one request, of the namespace of the
\* certificate being renewed, controlled by it and signed; a step that puts
\* a request into the cluster is no step of the run.
C13_DeletesOnlyOwnedCompleted ==
    [][/\ \A r \in Removed :
             /\ pc = "delete"
             /\ Removed = {r}
             /\ r.Namespace = cert.Namespace
             /\ r.Owner = cert.UID
             /\ r.Certificate /= ""
             /\ deleted' = deleted \cup {[req |-> r, by |-> cert]}
       /\ Created /= {} =>
             UNCHANGED <<pc, err, analysisVars, renewVars, historyVars,
                         attempts, late, clSecrets>>
    ]_vars

\* the run ended having deleted a signed request of a certificate, with a
\* request that the certificate does not control left in the same namespace
C13_Witness ==
    /\ pc = "exit"
    /\ \E d \in deleted, r \in clRequests :
          /\ d.req.Owner = d.by.UID
          /\ d.req.Certificate /= ""
          /\ r.Namespace = d.req.Namespace
          /\ r.Owner /= d.by.UID

ErrDelete == "delete CertificateRequest failed"

\* every request of the listing that cert controls is signed and was deleted
\* by this call
StaleAllDeleted ==
    \A k \in DOMAIN requests :
        IsControlledBy(requests[k], cert) =>
            /\ ~InProgress(requests[k])
            /\ [req |-> requests[k], by |-> cert] \in deleted

\* C14: renewCertificate re-reads and updates the Secret only with every
\* signed request of the listing that the certificate controls deleted, polls
\* only after its update was applied, and after a failed Delete returns the
\* error with the Secret neither read again nor updated for that certificate.
C14_CancelThenAnnotateThenAwait ==
    /\ pc \in {"getSecret", "updateSecret"} =>
          /\ StaleAllDeleted
          /\ UpdatesBy(cert) = {}
    /\ pc = "poll" =>
          /\ updated /= <<>>
          /\ updated[Len(updated)].cert = cert
          /\ Cardinality(UpdatesBy(cert)) = 1
    /\ \A k \in DOMAIN attempts :
          attempts[k].ret = ErrDelete =>
              /\ attempts[k].at = "CancelStale"
              /\ UpdatesBy(attempts[k].cert) = {}
              /\ secret = NoSecret
              /\ pc = "exit"
              /\ err = ErrDelete

\* one certificate was renewed after the Delete of its signed request, and
\* the next one failed in its Delete: no Secret read or update for it
C14_Witness ==
    /\ pc = "exit"
    /\ Len(attempts) = 2
    /\ attempts[1].ret = "nil"
    /\ attempts[1].at \in {"AwaitRequest", "AwaitRequest, last check"}
    /\ \E d \in deleted : d.by = attempts[1].cert
    /\ Cardinality(UpdatesBy(attempts[1].cert)) = 1
    /\ attempts[2].ret = ErrDelete
    /\ UpdatesBy(attempts[2].cert) = {}
    /\ secret = NoSecret

\* the copy of the certificate's Secret taken by the bulk read of line 80
SnapshotSecret == secretsMap[SecretKey(cert.Namespace, cert.SecretName)]

\* m with the issuer-name annotation set to the sentinel, the rest as it was
WithSentinel(m) ==
    [k \in DOMAIN m \cup {IssuerNameAnnotationKey} |->
        IF k = IssuerNameAnnotationKey THEN ForceRenewalTriggered ELSE m[k]]

\* C15: the Get of renewCertificate fetches the Secret the certificate names
\* as the cluster stores it then; the call makes one Update call, and an
\* Update that is applied replaces that Secret alone, by the fetched copy
\* with the issuer-name annotation set to "force-renewal-triggered": data and
\* other annotations as stored, every other Secret untouched.
C15_OneUpdateOfOneAnnotation ==
    [][/\ (pc = "getSecret" /\ pc' = "updateSecret") =>
             /\ secret' = StoredSecret
             /\ UNCHANGED clSecrets
       /\ (pc = "updateSecret" /\ (updated' /= updated \/ attempts' /= attempts)) =>
             pc' \in {"poll", "exit"}
       /\ clSecrets' /= clSecrets =>
             \/ UNCHANGED <<pc, updated, attempts, secret>> /\ writes' = writes + 1
             \/ /\ pc = "updateSecret"
                /\ UpdatesBy(cert) = {}
                /\ secret = StoredSecret
                /\ LET old == StoredSecret
                       new == CHOOSE s \in clSecrets' : s \notin clSecrets
                   IN  /\ clSecrets' = (clSecrets \ {old}) \cup {new}
                       /\ new.Namespace = cert.Namespace
                       /\ new.Name = cert.SecretName
                       /\ new.Data = old.Data
                       /\ new.Annotations = WithSentinel(old.Annotations)
                       /\ updated' = Append(updated,
                                       [cert |-> cert, old |-> old, new |-> new])
    ]_vars

\* an update was applied to a Secret that another client had changed since
\* the bulk read: the fetched copy, not the snapshot, was written back, with
\* the other client's annotation kept; the other Secret is as it was
C15_Witness ==
    /\ pc = "poll"
    /\ updated /= <<>>
    /\ LET u == updated[Len(updated)]
       IN  /\ u.cert = cert
           /\ u.old /= SnapshotSecret
           /\ u.old.ResourceVersion = SnapshotSecret.ResourceVersion + 1
           /\ Lookup(u.old.Annotations, IssuerNameAnnotationKey) = ProdIssuer
           /\ Lookup(u.new.Annotations, IssuerKindKey) = "ClusterIssuer"
           /\ Lookup(u.new.Annotations, IssuerNameAnnotationKey) = ForceRenewalTriggered
           /\ u.new = StoredSecret
           /\ Cardinality(clSecrets) = 2

\* the Secrets of the snapshot that crt names by namespace and secret name
SnapshotSecretsOf(crt) ==
    { secretsMap[key] : key \in { k \in DOMAIN secretsMap :
                                    /\ secretsMap[k].Namespace = crt.Namespace
                                    /\ secretsMap[k].Name = crt.SecretName } }

\* C16: every entry of serialsToCertificates holds a certificate whose
\* Secret is in the snapshot of the bulk read, with a tls.crt that is there
\* and decodes, and the entry's key is the serial number decoded from it.
C16_AffectedHaveDecodableSecret ==
    \A sn \in DOMAIN serialsToCertificates :
        LET crt == serialsToCertificates[sn] IN
        /\ crt \in Range(certs)
        /\ \E s \in SnapshotSecretsOf(crt) :
              /\ TLSCertKey \in DOMAIN s.Data
              /\ s.Data[TLSCertKey] \notin {NilBytes, ""}
              /\ s.Data[TLSCertKey] \in DOMAIN PemSerials
              /\ sn = SerialString(PemSerials[s.Data[TLSCertKey]])

\* with a filter set, two certificates of two namespaces are affected, their
\* Secrets of the same name holding certificates of different serials
C16_Witness ==
    /\ pc = "exit"
    /\ issuerName /= ""
    /\ Cardinality(DOMAIN serialsToCertificates) = 2
    /\ \E c, d \in Affected :
          /\ c.Namespace /= d.Namespace
          /\ c.SecretName = d.SecretName

\* crt gets through the filter loop of lines 111-121: no filter, or no
\* issuer-name annotation, or the annotation is the filter
PassesFilter(crt) ==
    LET a == SecretOf(crt).Annotations
    IN  \/ issuerName = ""
        \/ IssuerNameAnnotationKey \notin DOMAIN a
        \/ a[IssuerNameAnnotationKey] = issuerName

\* the iterations so far whose certificate decoded to sn and passed the filter
HitsOf(sn) ==
    { k \in Analysed :
        Decodes(certs[k]) /\ SerialOf(certs[k]) = sn /\ PassesFilter(certs[k]) }

Serials == { SerialString(PemSerials[p]) : p \in DOMAIN PemSerials }

\* C17: of the certificates decoded to one serial number and passing the
\* filter, serialsToCertificates holds under that serial the one listed last;
\* none of them adds to skipped, and the run does not fail for it.
C17_LastOfASerialWins ==
    \A sn \in Serials :
        LET ks == HitsOf(sn) IN
        IF ks = {}
        THEN sn \notin DOMAIN serialsToCertificates
        ELSE /\ sn \in DOMAIN serialsToCertificates
             /\ serialsToCertificates[sn] =
                  certs[CHOOSE k \in ks : \A l \in ks : l <= k]
             /\ \A k \in ks : outcome[k].skips = 0
             /\ skipped = Cardinality(Analysed \ UNION { HitsOf(t) : t \in Serials })
             /\ pc = "exit" => err = "nil"

\* two certificates decoded to one serial number: one entry, the second
\* certificate, nothing counted as skipped
C17_Witness ==
    /\ pc = "exit"
    /\ err = "nil"
    /\ Len(certs) = 2
    /\ \E sn \in Serials :
          /\ HitsOf(sn) = {1, 2}
          /\ DOMAIN serialsToCertificates = {sn}
          /\ serialsToCertificates[sn] = certs[2]
          /\ certs[1] /= certs[2]
    /\ skipped = 0

\* the four ways an iteration of the analysis loop skips its certificate
IsNotFound(k) == ~HasSecret(certs[k])
IsNoData(k) == HasSecret(certs[k]) /\ PayloadOf(certs[k]) = NilBytes
IsDecodeError(k) ==
    /\ HasSecret(certs[k])
    /\ PayloadOf(certs[k]) /= NilBytes
    /\ DecodeX509CertificateBytes(PayloadOf(certs[k])).err
IsFilterMismatch(k) == Decodes(certs[k]) /\ ~PassesFilter(certs[k])

IsSkip(k) == IsNotFound(k) \/ IsNoData(k) \/ IsDecodeError(k) \/ IsFilterMismatch(k)

DecodedSerialsDistinct ==
    \A j, k \in Analysed :
        (j /= k /\ Decodes(certs[j]) /\ Decodes(certs[k])) =>
            SerialOf(certs[j]) /= SerialOf(certs[k])

\* C18: skipped is the number of certificates analysed so far that were not
\* found, had no data, did not decode or did not match the filter, each
\* adding one; every other certificate went into serialsToCertificates; and
\* with the decoded serial numbers pairwise distinct, skipped plus the size
\* of serialsToCertificates is the number of certificates analysed, which at
\* the end of the loop is the number fetched.
C18_SkippedAccounting ==
    /\ skipped = Cardinality({ k \in Analysed : IsSkip(k) })
    /\ \A k \in Analysed :
          /\ outcome[k].skips = IF IsSkip(k) THEN 1 ELSE 0
          /\ ~IsSkip(k) => SerialOf(certs[k]) \in DOMAIN serialsToCertificates
    /\ DecodedSerialsDistinct =>
          skipped + Cardinality(DOMAIN serialsToCertificates) = Len(outcome)
    /\ (pc = "exit" /\ err = "nil") => Len(outcome) = Len(certs)

\* a run with the filter set ended with one certificate affected and one
\* skipped for its issuer name, which differs from the filter
C18_Witness ==
    /\ pc = "exit"
    /\ err = "nil"
    /\ issuerName /= ""
    /\ Len(certs) = 2
    /\ DecodedSerialsDistinct
    /\ \E j, k \in Analysed : IsFilterMismatch(j) /\ ~IsSkip(k)
    /\ skipped = 1
    /\ Cardinality(DOMAIN serialsToCertificates) = 1

AttemptsOf(c) == { k \in DOMAIN attempts : attempts[k].cert = c }

\* renewCertificate is running for cert
Renewing == pc \in {"cancelList", "delete", "getSecret", "updateSecret", "poll"}

\* what bounds the run: the poll stays below its timeout, every call of
\* renewCertificate is for an affected certificate not tried before, with at
\* most one update, and one call runs at a time
Bounded ==
    /\ elapsed \in 0..(PollTimeout - PollInterval)
    /\ pc /= "poll" => elapsed = 0
    /\ Len(attempts) <= Cardinality(Affected)
    /\ \A k \in DOMAIN attempts :
          /\ attempts[k].cert \in Affected
          /\ AttemptsOf(attempts[k].cert) = {k}
    /\ \A c \in Affected : Cardinality(UpdatesBy(c)) <= 1
    /\ Renewing =>
          /\ cert \in Affected
          /\ AttemptsOf(cert) = {}
          /\ Cardinality(pending) + Len(attempts) + 1 = Cardinality(Affected)
    /\ pc = "renewLoop" =>
          Cardinality(pending) + Len(attempts) = Cardinality(Affected)

\* C19: every run ends, whatever the cluster and cert-manager do, and until
\* then it is bounded: each affected certificate is tried at most once, one
\* at a time, each try with at most one update and one poll of at most
\* PollTimeout / PollInterval checks.
C19_RunTerminates == []Bounded /\ <>(pc = "exit")

\* a run that took as long as it can: the first certificate renewed, the
\* second timed out at the last check of its poll
C19_Witness ==
    /\ pc = "exit"
    /\ Len(attempts) = 2
    /\ Cardinality(Affected) = 2
    /\ attempts[1].ret = "nil"
    /\ attempts[2].ret = ErrWaitTimeout
    /\ attempts[2].at = "AwaitRequest, last check"
    /\ Len(updated) = 2

====
